---------------------------- MODULE Spec2Model ----------------------------
(***************************************************************************)
(* Smallest enclosing circle (Welzl, iterative work-stack formulation).    *)
(*                                                                         *)
(* Points are pairs <<x, y>> of integers; on such inputs every f64         *)
(* operation the code performs before a sign test is exact, so the         *)
(* predicates are modelled by the exact sign of their determinants.        *)
(* The surrogate point of a two-point circle has half-integer coordinates: *)
(* it is kept in units of one half, and the in-circle determinant is       *)
(* evaluated with all four points in units of one half (the determinant is *)
(* homogeneous of degree 4, so its sign is that of the original).          *)
(* center() is an exact pair of rationals, radius() is represented by its  *)
(* square (an exact rational): the code's sqrt is monotone and injective   *)
(* on non-negative numbers, so radii compare as their squares do.          *)
(***************************************************************************)
EXTENDS Integers, Sequences, FiniteSets

VARIABLES
    input,      \* the points handed to the call in progress
    p,          \* algorithm.rs:35  remaining points (LIFO)
    r,          \* algorithm.rs:36  support candidates (LIFO)
    circle,     \* algorithm.rs:37  result of the latest inner call
    stack,      \* algorithm.rs:38  work stack of State tokens, top = last
    panicked,   \* TRUE once the call has ended in a panic
    pending,    \* inputs of the calls the caller makes after this one
    results     \* the circles returned by the calls already finished

vars == <<input, p, r, circle, stack, panicked, pending, results>>

\* Longest input sequence of a single call.
MaxLen == 4

\* Longest first input of a pair of calls compared with each other.
MaxPairLen == 4

\* The points the inputs are drawn from: the plus-shaped neighbourhood of
\* (1,1) and two opposite corners. They hold two unit squares, four points
\* on a circle around (1,1), collinear triples along a row, a column and a
\* diagonal, and right, obtuse and acute triangles.
Points == { <<0, 0>>, <<1, 0>>, <<0, 1>>, <<1, 1>>, <<2, 1>>, <<1, 2>>, <<2, 2>> }

-----------------------------------------------------------------------------
(* Arithmetic helpers *)

Abs(n) == IF n < 0 THEN -n ELSE n

RECURSIVE GCD(_, _)
GCD(m, n) == IF n = 0 THEN m ELSE GCD(n, m % n)

\* The rational n/d (d # 0) in lowest terms with a positive denominator.
Rat(n, d) ==
    LET g == GCD(Abs(n), Abs(d))
        s == IF d < 0 THEN -1 ELSE 1
    IN  <<(s * n) \div g, (s * d) \div g>>

RatLeq(x, y) == x[1] * y[2] <= y[1] * x[2]

RatAdd(x, y) == Rat(x[1] * y[2] + y[1] * x[2], x[2] * y[2])

RatSub(x, y) == Rat(x[1] * y[2] - y[1] * x[2], x[2] * y[2])

RatMul(x, y) == Rat(x[1] * y[1], x[2] * y[2])

\* The set of elements of a sequence, and how often one occurs in it.
Range(s) == { s[i] : i \in DOMAIN s }

Count(s, x) == Cardinality({ i \in DOMAIN s : s[i] = x })

\* A point in units of one half.
Twice(pt) == <<2 * pt[1], 2 * pt[2]>>

-----------------------------------------------------------------------------
(* Predicates *)

\* geometry_predicates::orient2d: twice the signed area of (a, b, c).
orient2d(a, b, c) ==
    (a[1] - c[1]) * (b[2] - c[2]) - (a[2] - c[2]) * (b[1] - c[1])

\* geometry_predicates::incircle: positive iff d is inside the circle
\* through the counter-clockwise triple (a, b, c).
incircle(a, b, c, d) ==
    LET adx == a[1] - d[1]
        ady == a[2] - d[2]
        bdx == b[1] - d[1]
        bdy == b[2] - d[2]
        cdx == c[1] - d[1]
        cdy == c[2] - d[2]
        alift == adx * adx + ady * ady
        blift == bdx * bdx + bdy * bdy
        clift == cdx * cdx + cdy * cdy
    IN  alift * (bdx * cdy - bdy * cdx)
          + blift * (cdx * ady - cdy * adx)
          + clift * (adx * bdy - ady * bdx)

\* A faulty orientation: the signs are read the wrong way round. C30 must
\* tell it from orientation.
orientation_Reversed(a, b, c) ==
    LET o == orient2d(a, b, c)
    IN  IF o < 0 THEN "CounterClockwise"
        ELSE IF o > 0 THEN "Clockwise"
        ELSE "Collinear"

orientation(a, b, c) ==
    LET o == orient2d(a, b, c)
    IN  IF o > 0 THEN "CounterClockwise"
        ELSE IF o < 0 THEN "Clockwise"
        ELSE "Collinear"

\* A faulty in_circle: the signs are read the wrong way round. C37 must
\* tell it from in_circle.
in_circle_Reversed(a, b, c, probe) ==
    LET o == incircle(a, b, c, probe)
    IN  IF o < 0 THEN "Inside"
        ELSE IF o > 0 THEN "Outside"
        ELSE "On"

in_circle(a, b, c, probe) ==
    LET o == incircle(a, b, c, probe)
    IN  IF o > 0 THEN "Inside"
        ELSE IF o < 0 THEN "Outside"
        ELSE "On"

-----------------------------------------------------------------------------
(* Circle2D *)

None == [variant |-> "None"]

One(q) == [variant |-> "One", p |-> q]

Two(a, b) == [variant |-> "Two", a |-> a, b |-> b]

Three(a, b, c, ccw) ==
    [variant |-> "Three", a |-> a, b |-> b, c |-> c, counter_clockwise |-> ccw]

\* A faulty Circle2D::new: the length of the slice is not checked beyond
\* three (the catch-all arm builds a disk from the first three points).
\* C14 must tell it from new_panics.
new_panics_AnyLength(points) ==
    /\ Len(points) = 3
    /\ LET ab == points[1] = points[2]
           bc == points[2] = points[3]
           ca == points[3] = points[1]
       IN  \/ ab /\ bc /\ ~ca
           \/ ab /\ ~bc /\ ca
           \/ ~ab /\ bc /\ ca

\* Circle2D::new panics: more than 3 points, or the unreachable!() pattern.
new_panics(points) ==
    \/ Len(points) > 3
    \/ /\ Len(points) = 3
       /\ LET ab == points[1] = points[2]
              bc == points[2] = points[3]
              ca == points[3] = points[1]
          IN  \/ ab /\ bc /\ ~ca
              \/ ab /\ ~bc /\ ca
              \/ ~ab /\ bc /\ ca

\* A faulty Circle2D::new: the test of two points for equality is inverted
\* (== for !=). C7 must tell it from Circle2D_new.
Circle2D_new_EqFlipped(points) ==
    CASE Len(points) = 0 -> None
      [] Len(points) = 1 -> One(points[1])
      [] Len(points) = 2 ->
            IF points[1] = points[2]
            THEN Two(points[1], points[2])
            ELSE One(points[1])
      [] OTHER ->
            LET a == points[1]
                b == points[2]
                c == points[3]
                ab == a = b
                bc == b = c
                ca == c = a
            IN  CASE ab /\ bc /\ ca -> One(a)
                  [] ab /\ ~bc /\ ~ca -> Two(a, b)
                  [] ~ab /\ bc /\ ~ca -> Two(a, b)
                  [] ~ab /\ ~bc /\ ca -> Two(b, c)
                  [] OTHER ->
                        Three(a, b, c, orientation(a, b, c) = "CounterClockwise")

\* Circle2D::new_with_predicate, for the points on which it does not panic.
Circle2D_new(points) ==
    CASE Len(points) = 0 -> None
      [] Len(points) = 1 -> One(points[1])
      [] Len(points) = 2 ->
            IF points[1] # points[2]
            THEN Two(points[1], points[2])
            ELSE One(points[1])
      [] OTHER ->
            LET a == points[1]
                b == points[2]
                c == points[3]
                ab == a = b
                bc == b = c
                ca == c = a
            IN  CASE ab /\ bc /\ ca -> One(a)
                  [] ab /\ ~bc /\ ~ca -> Two(a, b)
                  [] ~ab /\ bc /\ ~ca -> Two(a, b)
                  [] ~ab /\ ~bc /\ ca -> Two(b, c)
                  [] OTHER ->
                        Three(a, b, c, orientation(a, b, c) = "CounterClockwise")

\* A faulty surrogate: the quarter turn about the midpoint goes the other
\* way round. C36 must tell it from surrogate.
surrogate_OtherTurn(c) ==
    LET mx2 == c.a[1] + c.b[1]
        my2 == c.a[2] + c.b[2]
    IN  <<mx2 + my2 - 2 * c.a[2], my2 - mx2 + 2 * c.a[1]>>

\* A faulty surrogate: the sum a + b is taken for the midpoint (the
\* division by two is left out). C16 must tell it from surrogate.
surrogate_NotHalved(c) ==
    LET mx2 == 2 * (c.a[1] + c.b[1])
        my2 == 2 * (c.a[2] + c.b[2])
    IN  <<mx2 - my2 + 2 * c.a[2], my2 + mx2 - 2 * c.a[1]>>

\* Circle2D::surrogate of a Two, in units of one half:
\* 2 * (mx - my + a.y, my + mx - a.x) with m the midpoint of ab.
surrogate(c) ==
    LET mx2 == c.a[1] + c.b[1]
        my2 == c.a[2] + c.b[2]
    IN  <<mx2 - my2 + 2 * c.a[2], my2 + mx2 - 2 * c.a[1]>>

\* Circle2D::surrogate as the caller sees it: the point, in units of one
\* half, for a Two and nothing for the other variants.
Circle2D_surrogate(c) ==
    IF c.variant = "Two"
    THEN [some |-> TRUE, value |-> surrogate(c)]
    ELSE [some |-> FALSE]

\* A faulty contains: a Two holds only the points strictly inside it.
\* C10 must tell it from contains_with_predicate.
contains_with_predicate_TwoStrict(c, point) ==
    CASE c.variant = "None" -> FALSE
      [] c.variant = "One" -> c.p = point
      [] c.variant = "Two" ->
            in_circle(Twice(c.a), Twice(c.b), surrogate(c), Twice(point)) = "Inside"
      [] OTHER ->
            LET i == in_circle(c.a, c.b, c.c, point)
            IN  \/ c.counter_clockwise /\ i = "Inside"
                \/ ~c.counter_clockwise /\ i = "Outside"

\* A faulty contains: a One holds no point at all. C17 must tell it from
\* contains_with_predicate.
contains_with_predicate_OneEmpty(c, point) ==
    CASE c.variant = "None" -> FALSE
      [] c.variant = "One" -> FALSE
      [] c.variant = "Two" ->
            in_circle(Twice(c.a), Twice(c.b), surrogate(c), Twice(point)) # "Outside"
      [] OTHER ->
            LET i == in_circle(c.a, c.b, c.c, point)
            IN  \/ c.counter_clockwise /\ i = "Inside"
                \/ ~c.counter_clockwise /\ i = "Outside"

contains_with_predicate(c, point) ==
    CASE c.variant = "None" -> FALSE
      [] c.variant = "One" -> c.p = point
      [] c.variant = "Two" ->
            in_circle(Twice(c.a), Twice(c.b), surrogate(c), Twice(point)) # "Outside"
      [] OTHER ->
            LET i == in_circle(c.a, c.b, c.c, point)
            IN  \/ c.counter_clockwise /\ i = "Inside"
                \/ ~c.counter_clockwise /\ i = "Outside"

\* A faulty is_on_circle: a One has no circle for a point to be on. C38
\* must tell it from is_on_circle_with_predicate.
is_on_circle_with_predicate_OneOff(c, point) ==
    CASE c.variant = "None" -> FALSE
      [] c.variant = "One" -> FALSE
      [] c.variant = "Two" ->
            in_circle(Twice(c.a), Twice(c.b), surrogate(c), Twice(point)) = "On"
      [] OTHER -> in_circle(c.a, c.b, c.c, point) = "On"

is_on_circle_with_predicate(c, point) ==
    CASE c.variant = "None" -> FALSE
      [] c.variant = "One" -> c.p = point
      [] c.variant = "Two" ->
            in_circle(Twice(c.a), Twice(c.b), surrogate(c), Twice(point)) = "On"
      [] OTHER -> in_circle(c.a, c.b, c.c, point) = "On"

\* A faulty one-sided comparison: the third support point of the other disk
\* is not looked up. C39 must tell it from one_sided_equals_with_predicate.
one_sided_equals_with_predicate_ThirdSkipped(self, other) ==
    CASE self.variant = "None" -> other.variant = "None"
      [] self.variant = "One" -> other.variant = "One" /\ self.p = other.p
      [] OTHER ->
            CASE other.variant = "Two" ->
                    /\ is_on_circle_with_predicate(self, other.a)
                    /\ is_on_circle_with_predicate(self, other.b)
              [] other.variant = "Three" ->
                    /\ is_on_circle_with_predicate(self, other.a)
                    /\ is_on_circle_with_predicate(self, other.b)
              [] OTHER -> FALSE

one_sided_equals_with_predicate(self, other) ==
    CASE self.variant = "None" -> other.variant = "None"
      [] self.variant = "One" -> other.variant = "One" /\ self.p = other.p
      [] OTHER ->
            CASE other.variant = "Two" ->
                    /\ is_on_circle_with_predicate(self, other.a)
                    /\ is_on_circle_with_predicate(self, other.b)
              [] other.variant = "Three" ->
                    /\ is_on_circle_with_predicate(self, other.a)
                    /\ is_on_circle_with_predicate(self, other.b)
                    /\ is_on_circle_with_predicate(self, other.c)
              [] OTHER -> FALSE

\* A faulty equals: only the support of the other disk is looked up on this
\* one. C19 must tell it from equals_with_predicate.
equals_with_predicate_OneSided(self, other) ==
    one_sided_equals_with_predicate(self, other)

\* A faulty equals: disks with different numbers of support points are
\* never equal. C11 must tell it from equals_with_predicate.
equals_with_predicate_SameVariant(self, other) ==
    /\ self.variant = other.variant
    /\ one_sided_equals_with_predicate(self, other)
    /\ one_sided_equals_with_predicate(other, self)

equals_with_predicate(self, other) ==
    /\ one_sided_equals_with_predicate(self, other)
    /\ one_sided_equals_with_predicate(other, self)

-----------------------------------------------------------------------------
(* Circumcircle *)

Absent == [some |-> FALSE]

Some(v) == [some |-> TRUE, value |-> v]

Panic == [some |-> FALSE, panic |-> TRUE]

\* A faulty circumcircle2d: b and c are not exchanged for a clockwise
\* triple. C21 must tell it from circumcircle2d.
circumcircle2d_NoSwap(a, b0, c0) ==
    LET o == orient2d(a, b0, c0)
        b == b0
        c == c0
        denominator == IF o > 0 THEN 2 * o ELSE -2 * o
        acx == a[1] - c[1]
        acy == a[2] - c[2]
        bcx == b[1] - c[1]
        bcy == b[2] - c[2]
        abx == a[1] - b[1]
        aby == a[2] - b[2]
        acxys == acx * acx + acy * acy
        bcxys == bcx * bcx + bcy * bcy
        abxys == abx * abx + aby * aby
    IN  IF o = 0 THEN Panic
        ELSE Some([center |->
                      << Rat(c[1] * denominator + (acxys * bcy - bcxys * acy),
                             denominator),
                         Rat(c[2] * denominator + (acx * bcxys - bcx * acxys),
                             denominator) >>,
                   radius_sq |->
                      Rat(bcxys * acxys * abxys, denominator * denominator)])

\* A faulty circumcircle2d: a collinear triple is not refused, the divisions
\* by zero give infinite values (n/0). C22 must tell it from circumcircle2d.
circumcircle2d_NoPanic(a, b0, c0) ==
    LET o == orient2d(a, b0, c0)
        b == IF o > 0 THEN b0 ELSE c0
        c == IF o > 0 THEN c0 ELSE b0
        denominator == IF o > 0 THEN 2 * o ELSE -2 * o
        acx == a[1] - c[1]
        acy == a[2] - c[2]
        bcx == b[1] - c[1]
        bcy == b[2] - c[2]
        abx == a[1] - b[1]
        aby == a[2] - b[2]
        acxys == acx * acx + acy * acy
        bcxys == bcx * bcx + bcy * bcy
        abxys == abx * abx + aby * aby
    IN  IF o = 0 THEN Some([center |-> << <<1, 0>>, <<1, 0>> >>, radius_sq |-> <<1, 0>>])
        ELSE Some([center |->
                      << Rat(c[1] * denominator + (acxys * bcy - bcxys * acy),
                             denominator),
                         Rat(c[2] * denominator + (acx * bcxys - bcx * acxys),
                             denominator) >>,
                   radius_sq |->
                      Rat(bcxys * acxys * abxys, denominator * denominator)])

\* circumcircle2d: center and squared radius, Panic for a collinear triple.
circumcircle2d(a, b0, c0) ==
    LET o == orient2d(a, b0, c0)
        b == IF o > 0 THEN b0 ELSE c0
        c == IF o > 0 THEN c0 ELSE b0
        denominator == IF o > 0 THEN 2 * o ELSE -2 * o
        acx == a[1] - c[1]
        acy == a[2] - c[2]
        bcx == b[1] - c[1]
        bcy == b[2] - c[2]
        abx == a[1] - b[1]
        aby == a[2] - b[2]
        acxys == acx * acx + acy * acy
        bcxys == bcx * bcx + bcy * bcy
        abxys == abx * abx + aby * aby
    IN  IF o = 0 THEN Panic
        ELSE Some([center |->
                      << Rat(c[1] * denominator + (acxys * bcy - bcxys * acy),
                             denominator),
                         Rat(c[2] * denominator + (acx * bcxys - bcx * acxys),
                             denominator) >>,
                   radius_sq |->
                      Rat(bcxys * acxys * abxys, denominator * denominator)])

\* A faulty circumcircle: a One is given the circle of radius 0 around its
\* point. C9 must tell it from circumcircle.
circumcircle_OneIsPoint(c) ==
    CASE c.variant = "None" -> Absent
      [] c.variant = "One" ->
            Some([center |-> << Rat(c.p[1], 1), Rat(c.p[2], 1) >>,
                  radius_sq |-> Rat(0, 1)])
      [] c.variant = "Two" ->
            Some([center |-> << Rat(c.a[1] + c.b[1], 2), Rat(c.a[2] + c.b[2], 2) >>,
                  radius_sq |->
                      Rat((c.a[1] - c.b[1]) * (c.a[1] - c.b[1])
                            + (c.a[2] - c.b[2]) * (c.a[2] - c.b[2]), 4)])
      [] OTHER -> circumcircle2d(c.a, c.b, c.c)

\* CircumCircle for Circle2D (with the [P; 2] case inlined).
circumcircle(c) ==
    CASE c.variant = "None" -> Absent
      [] c.variant = "One" -> Absent
      [] c.variant = "Two" ->
            Some([center |-> << Rat(c.a[1] + c.b[1], 2), Rat(c.a[2] + c.b[2], 2) >>,
                  radius_sq |->
                      Rat((c.a[1] - c.b[1]) * (c.a[1] - c.b[1])
                            + (c.a[2] - c.b[2]) * (c.a[2] - c.b[2]), 4)])
      [] OTHER -> circumcircle2d(c.a, c.b, c.c)

\* A faulty radius: the diameter is returned (its square is four times
\* the square of the radius). C20 must tell it from radius.
radius_Diameter(c) ==
    LET cc == circumcircle(c)
    IN  IF cc.some THEN Some(RatMul(cc.value.radius_sq, <<4, 1>>)) ELSE cc

\* Circle2D::radius, as the square of the radius.
radius(c) ==
    LET cc == circumcircle(c)
    IN  IF cc.some THEN Some(cc.value.radius_sq) ELSE cc

\* Circle2D::center.
center(c) ==
    LET cc == circumcircle(c)
    IN  IF cc.some THEN Some(cc.value.center) ELSE cc

-----------------------------------------------------------------------------
(* The recursive reference *)

RECURSIVE recursion(_, _)
recursion(pp, rr) ==
    IF Len(pp) = 0 \/ Len(rr) = 3
    THEN Circle2D_new(rr)
    ELSE LET remainder == SubSeq(pp, 1, Len(pp) - 1)
             element == pp[Len(pp)]
             first == recursion(remainder, rr)
         IN  IF ~contains_with_predicate(first, element)
             THEN recursion(remainder, Append(rr, element))
             ELSE first

smallest_enclosing_circle_recursive(points) == recursion(points, <<>>)

-----------------------------------------------------------------------------
(* The iterative engine *)

Top == stack[Len(stack)]

Pop(s) == SubSeq(s, 1, Len(s) - 1)

Running == ~panicked /\ stack # <<>>

\* The loop has ended and the call has returned circle.
Returned == ~panicked /\ stack = <<>>

\* What no step of the loop touches.
UNROLL == UNCHANGED <<input, pending, results>>

\* A faulty S0: the base case waits for four support points (4 for 3).
\* C26 must tell it from S0.
S0_BaseCaseFour ==
    /\ Running
    /\ Top.state = "S0"
    /\ IF Len(p) = 0 \/ Len(r) = 4
       THEN IF new_panics(r)
            THEN /\ panicked' = TRUE
                 /\ stack' = <<>>
                 /\ UNCHANGED circle
            ELSE /\ circle' = Circle2D_new(r)
                 /\ stack' = Pop(stack)
                 /\ UNCHANGED panicked
       ELSE /\ stack' = Append(Pop(stack), [state |-> "S1"])
            /\ UNCHANGED <<circle, panicked>>
    /\ UNCHANGED <<p, r>>
    /\ UNROLL

\* A faulty S0: the base case is taken only when P is empty and |R| = 3
\* (&& for ||). C8 must tell it from S0.
S0_BaseCaseAnd ==
    /\ Running
    /\ Top.state = "S0"
    /\ IF Len(p) = 0 /\ Len(r) = 3
       THEN IF new_panics(r)
            THEN /\ panicked' = TRUE
                 /\ stack' = <<>>
                 /\ UNCHANGED circle
            ELSE /\ circle' = Circle2D_new(r)
                 /\ stack' = Pop(stack)
                 /\ UNCHANGED panicked
       ELSE /\ stack' = Append(Pop(stack), [state |-> "S1"])
            /\ UNCHANGED <<circle, panicked>>
    /\ UNCHANGED <<p, r>>
    /\ UNROLL

S0 ==
    /\ Running
    /\ Top.state = "S0"
    /\ IF Len(p) = 0 \/ Len(r) = 3
       THEN IF new_panics(r)
            THEN /\ panicked' = TRUE
                 /\ stack' = <<>>
                 /\ UNCHANGED circle
            ELSE /\ circle' = Circle2D_new(r)
                 /\ stack' = Pop(stack)
                 /\ UNCHANGED panicked
       ELSE /\ stack' = Append(Pop(stack), [state |-> "S1"])
            /\ UNCHANGED <<circle, panicked>>
    /\ UNCHANGED <<p, r>>
    /\ UNROLL

\* A faulty S1: the two pushes are exchanged, S0 ends up below S2. C34
\* must tell it from S1.
S1_S0BelowS2 ==
    /\ Running
    /\ Top.state = "S1"
    /\ IF Len(p) = 0
       THEN /\ panicked' = TRUE
            /\ stack' = <<>>
            /\ UNCHANGED p
       ELSE /\ p' = Pop(p)
            /\ stack' = Pop(stack) \o
                   << [state |-> "S0"], [state |-> "S2", element |-> p[Len(p)]] >>
            /\ UNCHANGED panicked
    /\ UNCHANGED <<r, circle>>
    /\ UNROLL

\* A faulty S1: the last element of P is read but not removed (last() for
\* pop()). C33 must tell it from S1.
S1_Peek ==
    /\ Running
    /\ Top.state = "S1"
    /\ IF Len(p) = 0
       THEN /\ panicked' = TRUE
            /\ stack' = <<>>
       ELSE /\ stack' = Pop(stack) \o
                   << [state |-> "S2", element |-> p[Len(p)]], [state |-> "S0"] >>
            /\ UNCHANGED panicked
    /\ UNCHANGED <<p, r, circle>>
    /\ UNROLL

S1 ==
    /\ Running
    /\ Top.state = "S1"
    /\ IF Len(p) = 0
       THEN /\ panicked' = TRUE
            /\ stack' = <<>>
            /\ UNCHANGED p
       ELSE /\ p' = Pop(p)
            /\ stack' = Pop(stack) \o
                   << [state |-> "S2", element |-> p[Len(p)]], [state |-> "S0"] >>
            /\ UNCHANGED panicked
    /\ UNCHANGED <<r, circle>>
    /\ UNROLL

\* A faulty S2: the containment test is ignored and the inner call with
\* the element in the support is always scheduled. C32 must tell it from S2.
S2_AlwaysExtend ==
    /\ Running
    /\ Top.state = "S2"
    /\ r' = Append(r, Top.element)
    /\ stack' = Pop(stack) \o
           << [state |-> "S3", element |-> Top.element],
              [state |-> "S4"], [state |-> "S0"] >>
    /\ UNCHANGED <<p, circle, panicked>>
    /\ UNROLL

\* A faulty S2: S4 is pushed before S3, so the element goes back to P
\* while it is still in R. C31 must tell it from S2.
S2_S4BelowS3 ==
    /\ Running
    /\ Top.state = "S2"
    /\ LET element == Top.element
       IN  IF ~contains_with_predicate(circle, element)
           THEN /\ r' = Append(r, element)
                /\ stack' = Pop(stack) \o
                       << [state |-> "S4"],
                          [state |-> "S3", element |-> element], [state |-> "S0"] >>
           ELSE /\ stack' = Append(Pop(stack), [state |-> "S3", element |-> element])
                /\ UNCHANGED r
    /\ UNCHANGED <<p, circle, panicked>>
    /\ UNROLL

\* A faulty S2: an element found outside the circle is not added to the
\* support; the inner call is made again and the element tested once more.
\* C23 must tell it from S2.
S2_Retry ==
    /\ Running
    /\ Top.state = "S2"
    /\ LET element == Top.element
       IN  IF ~contains_with_predicate(circle, element)
           THEN stack' = Append(stack, [state |-> "S0"])
           ELSE stack' = Append(Pop(stack), [state |-> "S3", element |-> element])
    /\ UNCHANGED <<p, r, circle, panicked>>
    /\ UNROLL

S2 ==
    /\ Running
    /\ Top.state = "S2"
    /\ LET element == Top.element
       IN  IF ~contains_with_predicate(circle, element)
           THEN /\ r' = Append(r, element)
                /\ stack' = Pop(stack) \o
                       << [state |-> "S3", element |-> element],
                          [state |-> "S4"], [state |-> "S0"] >>
           ELSE /\ stack' = Append(Pop(stack), [state |-> "S3", element |-> element])
                /\ UNCHANGED r
    /\ UNCHANGED <<p, circle, panicked>>
    /\ UNROLL

\* A faulty S3: the element is not given back to P. C27 must tell it from
\* S3.
S3_NoPush ==
    /\ Running
    /\ Top.state = "S3"
    /\ stack' = Pop(stack)
    /\ UNCHANGED <<p, r, circle, panicked>>
    /\ UNROLL

S3 ==
    /\ Running
    /\ Top.state = "S3"
    /\ p' = Append(p, Top.element)
    /\ stack' = Pop(stack)
    /\ UNCHANGED <<r, circle, panicked>>
    /\ UNROLL

\* A faulty S4: the support extension is not undone. C3 must tell it from S4.
S4_NoPop ==
    /\ Running
    /\ Top.state = "S4"
    /\ stack' = Pop(stack)
    /\ UNCHANGED <<p, r, circle, panicked>>
    /\ UNROLL

S4 ==
    /\ Running
    /\ Top.state = "S4"
    /\ r' = (IF r = <<>> THEN r ELSE Pop(r))
    /\ stack' = Pop(stack)
    /\ UNCHANGED <<p, circle, panicked>>
    /\ UNROLL

\* All sequences over S of length at most n.
SeqsUpTo(S, n) == UNION { [1..k -> S] : k \in 0..n }

\* The state at the entry of a call on the given points (algorithm.rs:35-38).
Enter(points) ==
    /\ input = points
    /\ p = points
    /\ r = <<>>
    /\ circle = None
    /\ stack = << [state |-> "S0"] >>
    /\ panicked = FALSE

Init ==
    /\ \E points \in SeqsUpTo(Points, MaxLen) : Enter(points)
    /\ pending = <<>>
    /\ results = <<>>

Next == S0 \/ S1 \/ S2 \/ S3 \/ S4

Spec == Init /\ [][Next]_vars

-----------------------------------------------------------------------------
(* A caller that makes two calls in a row and compares the results, as the *)
(* permutation tests of algorithm.rs do.                                   *)

IsPermutation(s, t) ==
    /\ Len(s) = Len(t)
    /\ \A x \in Range(s) \cup Range(t) : Count(s, x) = Count(t, x)

PermutationsOf(s) == { t \in [1..Len(s) -> Range(s)] : IsPermutation(s, t) }

Insert(s, i, x) == SubSeq(s, 1, i - 1) \o <<x>> \o SubSeq(s, i, Len(s))

Remove(s, i) == SubSeq(s, 1, i - 1) \o SubSeq(s, i + 1, Len(s))

\* s with a duplicate of one of its points inserted at any position.
DuplicateInsertions(s) ==
    { Insert(s, i, x) : i \in 1..(Len(s) + 1), x \in Range(s) }

\* s with one occurrence of one of its points removed.
Removals(s) == { Remove(s, i) : i \in DOMAIN s }

Related(s) ==
    PermutationsOf(s) \cup Removals(s)
        \cup (IF Len(s) < MaxPairLen THEN DuplicateInsertions(s) ELSE {})

\* A faulty second call: the points are pushed onto the buffer the previous
\* call left behind, which is not cleared first. C25 must tell it from Call.
Call_BufferKept ==
    /\ Returned
    /\ pending # <<>>
    /\ results' = Append(results, [points |-> input, circle |-> circle])
    /\ pending' = Tail(pending)
    /\ input' = Head(pending)
    /\ p' = p \o Head(pending)
    /\ r' = <<>>
    /\ circle' = None
    /\ stack' = << [state |-> "S0"] >>
    /\ UNCHANGED panicked

\* The caller keeps the returned circle and makes its next call.
Call ==
    /\ Returned
    /\ pending # <<>>
    /\ results' = Append(results, [points |-> input, circle |-> circle])
    /\ pending' = Tail(pending)
    /\ input' = Head(pending)
    /\ p' = Head(pending)
    /\ r' = <<>>
    /\ circle' = None
    /\ stack' = << [state |-> "S0"] >>
    /\ UNCHANGED panicked

InitPair ==
    /\ \E points \in SeqsUpTo(Points, MaxPairLen) :
          /\ Enter(points)
          /\ pending \in { <<t>> : t \in Related(points) }
    /\ results = <<>>

NextPair == S0 \/ S1 \/ S2 \/ S3 \/ S4 \/ Call

SpecPair == InitPair /\ [][NextPair]_vars

\* Both calls of a pair have returned.
PairDone == Returned /\ pending = <<>> /\ results # <<>>

-----------------------------------------------------------------------------
(* Geometry the properties are stated in, independent of the code above *)

\* Squared distance of an integer point from a point with rational
\* coordinates.
SqDist(z, pt) ==
    LET dx == RatSub(z[1], <<pt[1], 1>>)
        dy == RatSub(z[2], <<pt[2], 1>>)
    IN  RatAdd(RatMul(dx, dx), RatMul(dy, dy))

\* The disk with diameter ab.
DiameterDisk(a, b) ==
    LET z == << Rat(a[1] + b[1], 2), Rat(a[2] + b[2], 2) >>
    IN  [center |-> z, radius_sq |-> SqDist(z, a)]

Norm2(a) == a[1] * a[1] + a[2] * a[2]

\* The disk through the non-collinear points a, b, c.
CircumDisk(a, b, c) ==
    LET d == 2 * (a[1] * (b[2] - c[2]) + b[1] * (c[2] - a[2]) + c[1] * (a[2] - b[2]))
        ux == Norm2(a) * (b[2] - c[2]) + Norm2(b) * (c[2] - a[2]) + Norm2(c) * (a[2] - b[2])
        uy == Norm2(a) * (c[1] - b[1]) + Norm2(b) * (a[1] - c[1]) + Norm2(c) * (b[1] - a[1])
        z == << Rat(ux, d), Rat(uy, d) >>
    IN  [center |-> z, radius_sq |-> SqDist(z, a)]

AreCollinear(a, b, c) ==
    (b[1] - a[1]) * (c[2] - a[2]) = (b[2] - a[2]) * (c[1] - a[1])

\* The closed disk d holds every point of the sequence s.
Encloses(d, s) == \A i \in DOMAIN s : RatLeq(SqDist(d.center, s[i]), d.radius_sq)

\* The enclosing disks of s spanned by two or three of its points. The
\* smallest enclosing disk of two or more distinct points is one of them.
SpannedEnclosingDisks(s) ==
    { d \in { DiameterDisk(a, b) : a, b \in Range(s) } : Encloses(d, s) }
      \cup { CircumDisk(t[1], t[2], t[3]) :
                t \in { u \in Range(s) \X Range(s) \X Range(s) :
                          /\ ~AreCollinear(u[1], u[2], u[3])
                          /\ Encloses(CircumDisk(u[1], u[2], u[3]), s) } }

MinRadiusSq(s) ==
    LET radii == { d.radius_sq : d \in SpannedEnclosingDisks(s) }
    IN  CHOOSE x \in radii : \A y \in radii : RatLeq(x, y)

AllEqual(s) == \A i, j \in DOMAIN s : s[i] = s[j]

AllCollinear(s) == \A i, j, k \in DOMAIN s : AreCollinear(s[i], s[j], s[k])

\* The points of a collinear sequence that do not lie strictly between two
\* others.
Extremes(s) ==
    { u \in Range(s) :
        \A v, w \in Range(s) :
            (v[1] - u[1]) * (w[1] - u[1]) + (v[2] - u[2]) * (w[2] - u[2]) >= 0 }

-----------------------------------------------------------------------------
(* Properties *)

\* C1. Containment: the returned disk contains() every input point.
C1_Containment ==
    Returned => \A i \in DOMAIN input : contains_with_predicate(circle, input[i])

\* C2. Minimality: for a non-empty input the radius of the returned disk is
\* absent exactly when all points coincide; otherwise every input point lies
\* in the closed disk and its squared radius is the least squared radius of
\* the enclosing disks spanned by two or three input points.
C2_Minimality ==
    (Returned /\ input # <<>>) =>
        IF AllEqual(input)
        THEN radius(circle) = Absent
        ELSE /\ circumcircle(circle).some
             /\ Encloses(circumcircle(circle).value, input)
             /\ radius(circle) = Some(MinRadiusSq(input))

\* C3. The iterative engine returns the same Circle2D value as the
\* recursive reference on the same input.
C3_IterativeEqualsRecursive ==
    stack = <<>> =>
        /\ ~panicked
        /\ circle = smallest_enclosing_circle_recursive(input)

C3_Witness ==
    /\ Returned
    /\ Len(input) >= 4
    /\ circle.variant = "Three"
    /\ circle = smallest_enclosing_circle_recursive(input)

\* C4. Duplicate invariance: inserting a duplicate of a point already
\* present, at any position, changes neither center() nor radius().
C4_DuplicateInvariance ==
    (/\ PairDone
     /\ \E i \in DOMAIN input :
           /\ Remove(input, i) = results[1].points
           /\ input[i] \in Range(results[1].points)) =>
        /\ center(circle) = center(results[1].circle)
        /\ radius(circle) = radius(results[1].circle)

\* C5. Permutation equivalence: the disks returned for an input and for a
\* permutation of it are equals().
C5_PermutationEquivalence ==
    (PairDone /\ IsPermutation(results[1].points, input)) =>
        equals_with_predicate(results[1].circle, circle)

\* C6. Monotonicity: removing one occurrence of a point does not increase
\* the (squared) radius, whenever both radii are present.
C6_Monotonicity ==
    (/\ PairDone
     /\ \E i \in DOMAIN results[1].points : Remove(results[1].points, i) = input
     /\ radius(circle).some
     /\ radius(results[1].circle).some) =>
        RatLeq(radius(circle).value, radius(results[1].circle).value)

\* C7. Support cardinality: None for no point, One for one point or two
\* equal points, Two for two distinct points; Two or Three as soon as the
\* input holds two distinct points.
C7_SupportCardinality ==
    stack = <<>> =>
        /\ ~panicked
        /\ (Len(input) = 0 => circle.variant = "None")
        /\ (Len(input) = 1 => circle = One(input[1]))
        /\ ((Len(input) = 2 /\ input[1] = input[2]) => circle = One(input[1]))
        /\ ((Len(input) = 2 /\ input[1] # input[2]) => circle.variant = "Two")
        /\ (~AllEqual(input) => circle.variant \in {"Two", "Three"})

C7_Witness ==
    /\ Returned
    /\ Len(input) = 2
    /\ input[1] # input[2]
    /\ circle.variant = "Two"

\* C8. Empty case: the empty sequence yields Circle2D::None, whose center()
\* and radius() are absent.
C8_EmptyCase ==
    (stack = <<>> /\ input = <<>>) =>
        /\ ~panicked
        /\ circle = None
        /\ center(circle) = Absent
        /\ radius(circle) = Absent

C8_Witness == Returned /\ input = <<>> /\ circle = None

\* C9. A non-empty input whose points all equal one point q yields One{q},
\* with center() and radius() absent.
C9_AllEqualIsOne ==
    (stack = <<>> /\ input # <<>> /\ AllEqual(input)) =>
        /\ ~panicked
        /\ circle = One(input[1])
        /\ center(circle) = Absent
        /\ radius(circle) = Absent

C9_Witness ==
    /\ Returned
    /\ Len(input) >= 3
    /\ AllEqual(input)
    /\ circle = One(input[1])

\* C10. Collinear input with at least two distinct points: the result is a
\* Two on the two extreme points (with the midpoint as center), never a
\* Three.
C10_CollinearIsTwoOnExtremes ==
    (stack = <<>> /\ AllCollinear(input) /\ ~AllEqual(input)) =>
        /\ ~panicked
        /\ circle.variant = "Two"
        /\ {circle.a, circle.b} = Extremes(input)
        /\ Cardinality(Extremes(input)) = 2
        /\ circumcircle(circle) = Some(DiameterDisk(circle.a, circle.b))

\* The collinear example of the tests, moved by (0,1).
C10_Witness ==
    /\ Returned
    /\ input = << <<0, 1>>, <<1, 1>>, <<2, 1>> >>
    /\ circle = Two(<<2, 1>>, <<0, 1>>)
    /\ center(circle) = Some(<< <<1, 1>>, <<1, 1>> >>)
    /\ radius(circle) = Some(<<1, 1>>)

-----------------------------------------------------------------------------
(* The cocircular inputs of the tests, in every order *)

\* algorithm.rs:97, the corners of the unit square.
UnitSquare == << <<0, 0>>, <<1, 0>>, <<1, 1>>, <<0, 1>> >>

\* algorithm.rs:317, four points of the unit circle.
UnitCircle4 == << <<1, 0>>, <<0, 1>>, <<-1, 0>>, <<0, -1>> >>

InitBoundary ==
    /\ \E points \in PermutationsOf(UnitSquare) \cup PermutationsOf(UnitCircle4) :
          Enter(points)
    /\ pending = <<>>
    /\ results = <<>>

SpecBoundary == InitBoundary /\ [][Next]_vars

\* C11. Cocircular boundary cases. Every order of the unit-square corners
\* yields center (1/2, 1/2), squared radius 1/2 and a disk that equals() the
\* Three on three corners; every order of (1,0), (0,1), (-1,0), (0,-1) yields
\* center (0,0), radius 1 and a disk that equals() Two{(-1,0), (1,0)}.
C11_CocircularBoundaryCases ==
    stack = <<>> =>
        /\ ~panicked
        /\ IsPermutation(input, UnitSquare) =>
              /\ center(circle) = Some(<< <<1, 2>>, <<1, 2>> >>)
              /\ radius(circle) = Some(<<1, 2>>)
              /\ \A t \in { u \in Range(UnitSquare) \X Range(UnitSquare) \X Range(UnitSquare) :
                              Cardinality({u[1], u[2], u[3]}) = 3 } :
                    equals_with_predicate(circle, Circle2D_new(<<t[1], t[2], t[3]>>))
        /\ IsPermutation(input, UnitCircle4) =>
              /\ center(circle) = Some(<< <<0, 1>>, <<0, 1>> >>)
              /\ radius(circle) = Some(<<1, 1>>)
              /\ equals_with_predicate(circle, Circle2D_new(<< <<-1, 0>>, <<1, 0>> >>))

C11_Witness ==
    /\ Returned
    /\ input = UnitSquare
    /\ center(circle) = Some(<< <<1, 2>>, <<1, 2>> >>)
    /\ radius(circle) = Some(<<1, 2>>)
    /\ equals_with_predicate(circle,
                             Circle2D_new(<< <<0, 0>>, <<1, 0>>, <<1, 1>> >>))

-----------------------------------------------------------------------------
(* A caller of Circle2D: builds a disk from input and puts one query to it *)

\* Longest slice handed to Circle2D::new.
MaxNewLen == 4

\* Most points a disk is spanned by (circle.rs:85).
MaxSupport == 3

\* The points the queries are put for: the square around Points, one unit
\* wider on every side, so that points outside every disk occur.
Probes == (-1..3) \X (-1..3)

InitCircle ==
    /\ input \in SeqsUpTo(Points, MaxNewLen)
    /\ p = <<>>
    /\ r = <<>>
    /\ circle = None
    /\ stack = <<>>
    /\ panicked = FALSE
    /\ pending = <<>>
    /\ results = <<>>

\* The disk has been built and no query has been put yet.
Built == ~panicked /\ Len(results) = 1

Answer(rec) ==
    /\ results' = Append(results, rec)
    /\ UNCHANGED <<input, p, r, circle, stack, panicked, pending>>

\* Circle2D::new(&input)
New ==
    /\ ~panicked
    /\ results = <<>>
    /\ IF new_panics(input)
       THEN /\ panicked' = TRUE
            /\ UNCHANGED <<circle, results>>
       ELSE /\ circle' = Circle2D_new(input)
            /\ results' = << [op |-> "new"] >>
            /\ UNCHANGED panicked
    /\ UNCHANGED <<input, p, r, stack, pending>>

\* circle.contains(&point)
Contains ==
    /\ Built
    /\ \E point \in Probes :
          Answer([op |-> "contains", point |-> point,
                  answer |-> contains_with_predicate(circle, point)])

\* circle.is_on_circle(&point)
IsOnCircle ==
    /\ Built
    /\ \E point \in Probes :
          Answer([op |-> "is_on_circle", point |-> point,
                  answer |-> is_on_circle_with_predicate(circle, point)])

\* circle.equals(&other) and other.equals(&circle), other built by
\* Circle2D::new as well.
Equals ==
    /\ Built
    /\ \E points \in SeqsUpTo(Points, MaxSupport) :
          /\ ~new_panics(points)
          /\ LET other == Circle2D_new(points)
             IN  Answer([op |-> "equals", other |-> other,
                         answer |-> equals_with_predicate(circle, other),
                         converse |-> equals_with_predicate(other, circle),
                         self |-> equals_with_predicate(circle, circle)])

\* circle.center() and circle.radius(); both go through circumcircle().
CenterRadius ==
    /\ Built
    /\ IF circumcircle(circle) = Panic
       THEN /\ panicked' = TRUE
            /\ UNCHANGED <<input, p, r, circle, stack, pending, results>>
       ELSE Answer([op |-> "center_radius",
                    center |-> center(circle), radius |-> radius(circle)])

\* circle.surrogate()
Surrogate ==
    /\ Built
    /\ Answer([op |-> "surrogate", answer |-> Circle2D_surrogate(circle)])

\* DefaultInCircle::in_circle(&input[0], &input[1], &input[2], &point), for
\* a caller holding three points.
InCircle ==
    /\ Built
    /\ Len(input) = 3
    /\ \E point \in Probes :
          Answer([op |-> "in_circle", point |-> point,
                  answer |-> in_circle(input[1], input[2], input[3], point)])

NextCircle ==
    New \/ Contains \/ IsOnCircle \/ Equals \/ CenterRadius \/ Surrogate \/ InCircle

SpecCircle == InitCircle /\ [][NextCircle]_vars

\* The query of the given kind has been answered.
Asked(op) == ~panicked /\ Len(results) = 2 /\ results[2].op = op

\* C12. For three points of which exactly two are equal, whichever two
\* positions hold the equal pair, Circle2D::new returns a Two whose two
\* support points are the two distinct values.
C12_TwoEqualOfThree ==
    (/\ results # <<>>
     /\ Len(input) = 3
     /\ Cardinality(Range(input)) = 2) =>
        /\ circle.variant = "Two"
        /\ {circle.a, circle.b} = Range(input)

\* C13. Circle2D::new returns None for 0 points, One{p} for 1 point, One
\* for 2 equal points, Two{a,b} in the given order for 2 distinct points,
\* and One for 3 equal points.
C13_NewUpToTwoPoints ==
    results # <<>> =>
        /\ (Len(input) = 0) => (circle = None)
        /\ (Len(input) = 1) => (circle = One(input[1]))
        /\ (Len(input) = 2 /\ input[1] = input[2]) => (circle = One(input[1]))
        /\ (Len(input) = 2 /\ input[1] # input[2]) =>
              (circle = Two(input[1], input[2]))
        /\ (Len(input) = 3 /\ AllEqual(input)) => (circle = One(input[1]))

C13_Witness ==
    /\ results # <<>>
    /\ input = << <<1, 0>>, <<0, 1>> >>
    /\ circle = Two(<<1, 0>>, <<0, 1>>)

\* C14. Circle2D::new called with more than 3 points ends in a panic and
\* returns no disk: the only step such a call takes is the panic.
C14_NewPanicsOnMoreThanThree ==
    [][Len(input) > 3 =>
          /\ panicked'
          /\ results' = <<>>
          /\ circle' = circle]_vars

C14_Witness == Len(input) > 3 /\ panicked /\ results = <<>> /\ circle = None

\* The closed disk d holds the point pt.
InClosedDisk(d, pt) == RatLeq(SqDist(d.center, pt), d.radius_sq)

\* C15. For every Three{a,b,c,ccw} with non-collinear support and every
\* point p, contains(p) is true iff p lies in the closed disk through a, b,
\* c: if ccw, iff in_circle(a,b,c,p) is Inside or On; otherwise iff it is
\* Outside or On.
C15_ThreeContainsClosedDisk ==
    (/\ Asked("contains")
     /\ circle.variant = "Three"
     /\ ~AreCollinear(circle.a, circle.b, circle.c)) =>
        LET q == results[2]
            i == in_circle(circle.a, circle.b, circle.c, q.point)
        IN  /\ q.answer = InClosedDisk(CircumDisk(circle.a, circle.b, circle.c), q.point)
            /\ q.answer = IF circle.counter_clockwise
                          THEN i \in {"Inside", "On"}
                          ELSE i \in {"Outside", "On"}

\* C16. For every Two{a,b} with a # b and every point p, contains(p) is
\* true iff p lies in the closed disk with diameter ab; a, b and the
\* midpoint of ab are contained.
C16_TwoContainsClosedDisk ==
    (/\ Asked("contains")
     /\ circle.variant = "Two"
     /\ circle.a # circle.b) =>
        LET q == results[2]
        IN  /\ q.answer = InClosedDisk(DiameterDisk(circle.a, circle.b), q.point)
            /\ q.point \in {circle.a, circle.b} => q.answer
            /\ Twice(q.point) = <<circle.a[1] + circle.b[1], circle.a[2] + circle.b[2]>> =>
                  q.answer

C16_Witness ==
    /\ Asked("contains")
    /\ circle = Two(<<0, 0>>, <<2, 2>>)
    /\ results[2].point = <<1, 1>>
    /\ results[2].answer

\* C17. contains(p) is false for every p on a None disk; on a One{q} disk it
\* is true iff p and q have equal coordinates.
C17_NoneOneContains ==
    Asked("contains") =>
        /\ (circle.variant = "None") => ~results[2].answer
        /\ (circle.variant = "One") =>
              (results[2].answer = (results[2].point = circle.p))

C17_Witness ==
    /\ Asked("contains")
    /\ circle = One(<<1, 2>>)
    /\ results[2].point = <<1, 2>>
    /\ results[2].answer

\* The point pt lies exactly on the boundary of the disk d.
OnBoundary(d, pt) == SqDist(d.center, pt) = d.radius_sq

\* C18. is_on_circle(p) is true iff p lies exactly on the circle: for
\* Two{a,b} iff in_circle(a,b,s,p) is On, for Three iff in_circle(a,b,c,p) is
\* On whatever the flag, for One{q} iff p = q, never for None. Every support
\* point of a Two or Three is on its circle; the midpoint of a Two is not.
C18_IsOnCircleExact ==
    Asked("is_on_circle") =>
        LET q == results[2]
        IN  /\ (circle.variant = "None") => ~q.answer
            /\ (circle.variant = "One") => (q.answer = (q.point = circle.p))
            /\ (circle.variant = "Two") =>
                  /\ q.answer = OnBoundary(DiameterDisk(circle.a, circle.b), q.point)
                  /\ q.answer = (in_circle(Twice(circle.a), Twice(circle.b),
                                           surrogate(circle), Twice(q.point)) = "On")
                  /\ q.point \in {circle.a, circle.b} => q.answer
                  /\ Twice(q.point) = <<circle.a[1] + circle.b[1],
                                        circle.a[2] + circle.b[2]>> => ~q.answer
            /\ (circle.variant = "Three") =>
                  /\ ~AreCollinear(circle.a, circle.b, circle.c) =>
                        (q.answer = OnBoundary(CircumDisk(circle.a, circle.b, circle.c),
                                               q.point))
                  /\ q.answer = (in_circle(circle.a, circle.b, circle.c, q.point) = "On")
                  /\ q.point \in {circle.a, circle.b, circle.c} => q.answer

\* The disk c stands for a circle: a Two, or a Three off a line.
HasCircle(c) ==
    \/ c.variant = "Two"
    \/ c.variant = "Three" /\ ~AreCollinear(c.a, c.b, c.c)

\* The circle of such a disk, from its support points.
CircleOf(c) ==
    IF c.variant = "Two"
    THEN DiameterDisk(c.a, c.b)
    ELSE CircumDisk(c.a, c.b, c.c)

\* C19. Circle2D::equals is reflexive on every disk built by Circle2D::new,
\* symmetric, and true for two disks whose supports differ but lie on the
\* same circle (a Two and a Three on the same circle included).
C19_EqualsReflexiveSymmetric ==
    Asked("equals") =>
        LET q == results[2]
        IN  /\ q.self
            /\ q.answer = q.converse
            /\ (/\ HasCircle(circle)
                /\ HasCircle(q.other)
                /\ CircleOf(circle) = CircleOf(q.other)) => q.answer

C19_Witness ==
    /\ Asked("equals")
    /\ circle = Two(<<0, 1>>, <<1, 0>>)
    /\ results[2].other = Three(<<0, 0>>, <<1, 0>>, <<1, 1>>, TRUE)
    /\ results[2].answer
    /\ results[2].converse
    /\ results[2].self

\* C20. center() and radius() are both absent for None and One; for
\* Two{a,b} center() is the midpoint (a+b)/2 and radius() is |a-b|/2 (its
\* square is |a-b|^2/4).
C20_CenterRadiusUpToTwo ==
    Asked("center_radius") =>
        LET q == results[2]
        IN  /\ (circle.variant \in {"None", "One"}) =>
                  /\ q.center = Absent
                  /\ q.radius = Absent
            /\ (circle.variant = "Two") =>
                  /\ q.center = Some(<< Rat(circle.a[1] + circle.b[1], 2),
                                        Rat(circle.a[2] + circle.b[2], 2) >>)
                  /\ q.radius = Some(SqDist(q.center.value, circle.a))
                  /\ q.radius = Some(SqDist(q.center.value, circle.b))
                  /\ q.radius =
                        Some(RatMul(SqDist(<< <<circle.a[1], 1>>, <<circle.a[2], 1>> >>,
                                           circle.b),
                                    <<1, 4>>))

C20_Witness ==
    /\ Asked("center_radius")
    /\ circle = Two(<<0, 0>>, <<2, 1>>)
    /\ results[2].center = Some(<< <<1, 1>>, <<1, 2>> >>)
    /\ results[2].radius = Some(<<5, 4>>)

\* C21. For three non-collinear points in either orientation circumcircle2d
\* returns a center equidistant from the three and a radius whose square is
\* that squared distance; for (-1,-1), (1,-1), (1,1) it returns center (0,0)
\* and radius sqrt(2).
C21_CircumcircleEquidistant ==
    /\ circumcircle2d(<<-1, -1>>, <<1, -1>>, <<1, 1>>) =
          Some([center |-> << <<0, 1>>, <<0, 1>> >>, radius_sq |-> <<2, 1>>])
    /\ (/\ Asked("center_radius")
        /\ circle.variant = "Three"
        /\ ~AreCollinear(circle.a, circle.b, circle.c)) =>
          LET q == results[2]
          IN  /\ q.center.some
              /\ q.radius.some
              /\ SqDist(q.center.value, circle.a) = q.radius.value
              /\ SqDist(q.center.value, circle.b) = q.radius.value
              /\ SqDist(q.center.value, circle.c) = q.radius.value

C21_Witness ==
    /\ Asked("center_radius")
    /\ circle = Three(<<0, 0>>, <<2, 1>>, <<1, 2>>, TRUE)
    /\ results[2].center = Some(<< <<5, 6>>, <<5, 6>> >>)
    /\ results[2].radius = Some(<<25, 18>>)

\* C22. circumcircle2d on three collinear points panics and returns neither
\* center nor radius; center() and radius() of a Three with collinear
\* support therefore panic.
C22_CollinearCircumcirclePanics ==
    (/\ results # <<>>
     /\ circle.variant = "Three"
     /\ AreCollinear(circle.a, circle.b, circle.c)) =>
        /\ circumcircle2d(circle.a, circle.b, circle.c) = Panic
        /\ center(circle) = Panic
        /\ radius(circle) = Panic
        /\ ~(Len(results) = 2 /\ results[2].op = "center_radius")

C22_Witness ==
    /\ panicked
    /\ Len(results) = 1
    /\ circle = Three(<<0, 0>>, <<1, 1>>, <<2, 2>>, FALSE)

-----------------------------------------------------------------------------
(* The engine with its loop running on: every iteration that can be taken
   is taken (a sequential while loop never pauses). *)

SpecLive == Init /\ [][Next]_vars /\ WF_vars(Next)

\* C23. Termination: on every input the work-stack loop eventually reaches
\* an empty stack and returns circle.
C23_Termination == <>Returned

C23_Witness ==
    /\ Returned
    /\ Len(input) = MaxLen
    /\ circle.variant = "Three"

\* C24. All well-formed inputs succeed: the engine never reaches a fatal
\* state. S1 never pops from an empty P, Circle2D::new is never called with
\* more than 3 points, and its unreachable!() pattern is never hit.
C24_NoFatalState ==
    /\ ~panicked
    /\ (Running /\ Top.state = "S1") => Len(p) > 0
    /\ (Running /\ Top.state = "S0" /\ (Len(p) = 0 \/ Len(r) = 3)) =>
          /\ Len(r) <= 3
          /\ ~new_panics(r)

C24_Witness ==
    /\ Running
    /\ Top.state = "S0"
    /\ Len(r) = 3
    /\ Len(p) > 0
    /\ ~new_panics(r)

-----------------------------------------------------------------------------
(* A caller making the same call twice *)

InitTwice ==
    /\ \E points \in SeqsUpTo(Points, MaxLen) :
          /\ Enter(points)
          /\ pending = <<points>>
    /\ results = <<>>

SpecTwice == InitTwice /\ [][NextPair]_vars

-----------------------------------------------------------------------------
(* Invariants of the engine *)

\* C26. In every reachable state the support buffer R holds at most 3
\* points: S2 pushes onto R only when it holds fewer than 3, because an S0
\* popped with 3 points in R takes the base case and never schedules S1.
C26_SupportAtMostThree ==
    /\ Len(r) <= 3
    /\ (Running /\ Top.state \in {"S1", "S2"}) => Len(r) < 3

C26_Witness ==
    /\ Running
    /\ Top.state = "S0"
    /\ Len(r) = 3
    /\ Len(p) = 1

\* The elements the tokens of s will push back onto P, in the order they
\* will be pushed (top of the stack first): an S3 holds its element, an S2
\* will turn into the S3 of the same element.
RECURSIVE OwedToP(_)
OwedToP(s) ==
    IF s = <<>>
    THEN <<>>
    ELSE (IF s[Len(s)].state \in {"S2", "S3"} THEN <<s[Len(s)].element>> ELSE <<>>)
            \o OwedToP(Pop(s))

\* The elements the S4 tokens of s will pop from R, oldest first: each S4
\* lies right above the S3 of the element pushed with it.
RECURSIVE OwedByR(_)
OwedByR(s) ==
    IF Len(s) < 2
    THEN <<>>
    ELSE OwedByR(Pop(s))
            \o (IF s[Len(s)].state = "S4" THEN <<s[Len(s) - 1].element>> ELSE <<>>)

\* C27. Restoration: P and R are what the tokens left on the stack account
\* for. P followed by the elements owed to it is the input and R is exactly
\* the elements its S4 tokens will pop, so whenever the tokens of a logical
\* call are consumed (the stack is back to what lay below its S0) P and R are
\* back to what they were when that S0 was popped; with the stack empty P is
\* the input sequence and R is empty.
C27_Restoration ==
    ~panicked =>
        /\ p \o OwedToP(stack) = input
        /\ r = OwedByR(stack)
        /\ (stack = <<>>) => (p = input /\ r = <<>>)

C27_Witness ==
    /\ Running
    /\ Len(input) = MaxLen
    /\ Len(r) = 2
    /\ Len(p) = 1
    /\ Top.state = "S3"
    /\ p \o OwedToP(stack) = input
    /\ r = OwedByR(stack)

\* The support points of the disk c are pairwise distinct.
DistinctSupport(c) ==
    /\ (c.variant = "Two") => (c.a # c.b)
    /\ (c.variant = "Three") => (c.a # c.b /\ c.b # c.c /\ c.c # c.a)

\* C28. Every Two or Three produced by Circle2D::new from 2 or 3 points,
\* and so every disk the engine assigns to circle and the disk it returns,
\* has pairwise distinct support points.
C28_DistinctSupport ==
    (results # <<>> /\ Len(input) \in {2, 3}) => DistinctSupport(circle)

-----------------------------------------------------------------------------
(* The engine on longer inputs over few points: three points of a row, at
   distances 1 and 2, and one point off the row *)

\* Longest input sequence over WidePoints.
MaxWideLen == 5

WidePoints == { <<0, 0>>, <<1, 0>>, <<3, 0>>, <<2, 3>> }

InitWide ==
    /\ \E points \in SeqsUpTo(WidePoints, MaxWideLen) : Enter(points)
    /\ pending = <<>>
    /\ results = <<>>

SpecWide == InitWide /\ [][Next]_vars

\* C29. Every Three the engine assigns to circle in an S0 base case, and
\* every Three it returns, has non-collinear support points: the engine
\* never builds a Three for which center() or radius() would panic.
C29_ThreeNotCollinear ==
    (circle.variant = "Three") =>
        /\ ~AreCollinear(circle.a, circle.b, circle.c)
        /\ circumcircle(circle) # Panic

\* Twice the signed area of the triangle abc: positive iff a, b, c turn
\* counterclockwise.
SignedArea2(a, b, c) ==
    (b[1] - a[1]) * (c[2] - a[2]) - (b[2] - a[2]) * (c[1] - a[1])

\* C30. For every Three built by Circle2D::new from three pairwise distinct
\* points, a, b, c are stored in the given order and counter_clockwise is
\* true iff orientation(a,b,c) is CounterClockwise: false for a clockwise
\* and for a collinear triple.
C30_ThreeOrderAndFlag ==
    (/\ results # <<>>
     /\ Len(input) = 3
     /\ Cardinality(Range(input)) = 3) =>
        /\ circle.variant = "Three"
        /\ <<circle.a, circle.b, circle.c>> = input
        /\ circle.counter_clockwise =
              (orientation(input[1], input[2], input[3]) = "CounterClockwise")
        /\ circle.counter_clockwise = (SignedArea2(input[1], input[2], input[3]) > 0)

C30_Witness ==
    /\ results # <<>>
    /\ input = << <<2, 2>>, <<0, 1>>, <<1, 0>> >>
    /\ circle = Three(<<2, 2>>, <<0, 1>>, <<1, 0>>, TRUE)

-----------------------------------------------------------------------------
(* The work stack *)

\* C31. Push/pop pairing on R: every S4 token, when processed, finds R
\* non-empty with its last element equal to the point pushed by the S2 that
\* scheduled it, and it is processed before the S3 of that point (which lies
\* right below it): the support extension is undone before the point is
\* returned to P.
C31_PushPopPairing ==
    (Running /\ Top.state = "S4") =>
        /\ r # <<>>
        /\ Len(stack) >= 2
        /\ stack[Len(stack) - 1].state = "S3"
        /\ stack[Len(stack) - 1].element = r[Len(r)]

C31_Witness ==
    /\ Running
    /\ Top.state = "S4"
    /\ Len(r) = 3
    /\ stack[Len(stack) - 1] = [state |-> "S3", element |-> r[3]]

\* C32. When S2(p) is processed and circle contains p, only S3(p) is
\* pushed and R and circle are left unchanged; in both branches of S2, P is
\* unchanged; circle is written only by an S0 base case.
C32_S2FrameEffect ==
    [][/\ (Running /\ Top.state = "S2") =>
             /\ p' = p
             /\ circle' = circle
             /\ contains_with_predicate(circle, Top.element) =>
                   /\ r' = r
                   /\ stack' = Append(Pop(stack),
                                      [state |-> "S3", element |-> Top.element])
       /\ (circle' # circle) =>
             /\ Running
             /\ Top.state = "S0"
             /\ Len(p) = 0 \/ Len(r) = 3]_vars

C32_Witness ==
    /\ Running
    /\ Top.state = "S2"
    /\ contains_with_predicate(circle, Top.element)
    /\ circle.variant = "Two"
    /\ Len(r) = 1

\* How many tokens of the stack, of one of the given states, carry x.
Carried(states, x) ==
    Cardinality({ i \in DOMAIN stack :
                    stack[i].state \in states /\ stack[i].element = x })

\* C33. Conservation of points: in every reachable state the multiset of
\* the points in P together with the points carried by the S2 and S3 tokens
\* is the multiset of the input points, and every point in R is carried by
\* an S3 token.
C33_Conservation ==
    ~panicked =>
        /\ \A x \in Range(input) \cup Range(p) \cup Range(OwedToP(stack)) :
              Count(p, x) + Carried({"S2", "S3"}, x) = Count(input, x)
        /\ \A x \in Range(r) : Count(r, x) <= Carried({"S3"}, x)

C33_Witness ==
    /\ Running
    /\ Len(input) = MaxLen
    /\ Len(p) = 1
    /\ Len(r) = 2
    /\ Top.state = "S2"
    /\ \A x \in Range(input) :
          Count(p, x) + Carried({"S2", "S3"}, x) = Count(input, x)

\* The positions of the stack holding a token of one of the given states.
TokensOf(states) == { i \in DOMAIN stack : stack[i].state \in states }

\* C34. In every reachable state the number of S4 tokens on the stack is
\* |R|, and the stack holds at most one S0-or-S1 token, which is then the top.
C34_TokenCounts ==
    ~panicked =>
        /\ Cardinality(TokensOf({"S4"})) = Len(r)
        /\ Cardinality(TokensOf({"S0", "S1"})) <= 1
        /\ TokensOf({"S0", "S1"}) \subseteq {Len(stack)}

C34_Witness ==
    /\ Running
    /\ Top.state = "S1"
    /\ Len(r) = 2
    /\ Cardinality(TokensOf({"S4"})) = 2
    /\ TokensOf({"S0", "S1"}) = {Len(stack)}

\* C35. Bounded work stack: for an input of n points the stack never holds
\* more than n + 4 tokens and P never holds more than n points.
C35_BoundedStack ==
    /\ Len(stack) <= Len(input) + 4
    /\ Len(p) <= Len(input)

C35_Witness ==
    /\ Len(input) = MaxLen
    /\ Len(stack) = Len(input) + 4

-----------------------------------------------------------------------------
(* The surrogate point and the in-circle predicate *)

\* C36. For every Two{a,b} with a # b, surrogate() is
\* s = (m.x - m.y + a.y, m.y + m.x - a.x) with m the midpoint of ab; s lies on
\* the circle with diameter ab, differs from a and b, and (a,b,s) is
\* counterclockwise for either order of a and b: (0,1) for a = (0,0),
\* b = (1,1) and (1,0) for the reverse. surrogate() is None for None, One and
\* Three. (s, a and b are compared in units of one half.)
C36_Surrogate ==
    /\ Circle2D_surrogate(Two(<<0, 0>>, <<1, 1>>)) = Some(Twice(<<0, 1>>))
    /\ Circle2D_surrogate(Two(<<1, 1>>, <<0, 0>>)) = Some(Twice(<<1, 0>>))
    /\ Asked("surrogate") =>
          LET q == results[2]
              a == circle.a
              b == circle.b
              s == q.answer.value
          IN  /\ (circle.variant # "Two") => (q.answer = Absent)
              /\ (circle.variant = "Two" /\ a # b) =>
                    /\ q.answer.some
                    /\ s = << (a[1] + b[1]) - (a[2] + b[2]) + 2 * a[2],
                              (a[2] + b[2]) + (a[1] + b[1]) - 2 * a[1] >>
                    /\ Norm2(<<s[1] - (a[1] + b[1]), s[2] - (a[2] + b[2])>>)
                          = Norm2(<<a[1] - b[1], a[2] - b[2]>>)
                    /\ s # Twice(a)
                    /\ s # Twice(b)
                    /\ SignedArea2(Twice(a), Twice(b), s) > 0

C36_Witness ==
    /\ Asked("surrogate")
    /\ circle = Two(<<2, 2>>, <<1, 0>>)
    /\ results[2].answer = Some(<<5, 1>>)

\* Where pt lies with respect to the circle of the disk d.
Side(d, pt) ==
    IF SqDist(d.center, pt) = d.radius_sq THEN "On"
    ELSE IF RatLeq(SqDist(d.center, pt), d.radius_sq) THEN "Inside"
    ELSE "Outside"

\* C37. For a counterclockwise triple (a,b,c), in_circle(a,b,c,p) is Inside
\* iff p is strictly inside the circumcircle of abc, On iff p is exactly on
\* it, Outside iff p is strictly outside; for a clockwise triple Inside and
\* Outside are exchanged and On is unchanged.
C37_InCircleSemantics ==
    (Asked("in_circle") /\ ~AreCollinear(input[1], input[2], input[3])) =>
        LET q == results[2]
            side == Side(CircumDisk(input[1], input[2], input[3]), q.point)
        IN  IF SignedArea2(input[1], input[2], input[3]) > 0
            THEN q.answer = side
            ELSE q.answer = (CASE side = "Inside" -> "Outside"
                               [] side = "Outside" -> "Inside"
                               [] OTHER -> "On")

C37_Witness ==
    /\ Asked("in_circle")
    /\ input = << <<0, 0>>, <<1, 2>>, <<2, 1>> >>
    /\ results[2].point = <<1, 1>>
    /\ results[2].answer = "Outside"

-----------------------------------------------------------------------------
(* The returned disk and equality of disks *)

\* The support points of the disk c.
Support(c) ==
    CASE c.variant = "None" -> {}
      [] c.variant = "One" -> {c.p}
      [] c.variant = "Two" -> {c.a, c.b}
      [] OTHER -> {c.a, c.b, c.c}

\* C38. Every support point of the returned disk is one of the input
\* points, and is_on_circle is true on the returned disk for each of its
\* support points.
C38_SupportFromInputOnCircle ==
    Returned =>
        \A q \in Support(circle) :
            /\ q \in Range(input)
            /\ is_on_circle_with_predicate(circle, q)

C38_Witness ==
    /\ Returned
    /\ Len(input) = MaxLen
    /\ circle.variant = "Three"
    /\ Cardinality(Support(circle)) = 3
    /\ \A q \in Support(circle) :
          q \in Range(input) /\ is_on_circle_with_predicate(circle, q)

\* The disk c is well formed: it stands for a circle and its support
\* points are pairwise distinct.
WellFormed(c) == HasCircle(c) /\ DistinctSupport(c)

\* C39. Soundness of equals: for disks whose support is pairwise distinct
\* and non-collinear, equals being true implies the same circle (same center
\* and same squared radius); a None equals only None, a One{p} equals only a
\* One{q} with equal coordinates, and neither ever equals a Two or Three.
C39_EqualsSound ==
    Asked("equals") =>
        LET q == results[2]
        IN  /\ (WellFormed(circle) /\ WellFormed(q.other) /\ q.answer) =>
                  (CircleOf(circle) = CircleOf(q.other))
            /\ (circle.variant = "None") => (q.answer = (q.other.variant = "None"))
            /\ (circle.variant = "One") =>
                  (q.answer = (q.other.variant = "One" /\ q.other.p = circle.p))
            /\ (q.other.variant = "None") => (q.converse = (circle.variant = "None"))
            /\ (q.other.variant = "One") =>
                  (q.converse = (circle.variant = "One" /\ q.other.p = circle.p))
            /\ (/\ {circle.variant, q.other.variant} \cap {"None", "One"} # {}
                /\ {circle.variant, q.other.variant} \cap {"Two", "Three"} # {}) =>
                  (~q.answer /\ ~q.converse)

C39_Witness ==
    /\ Asked("equals")
    /\ circle = Three(<<1, 0>>, <<2, 1>>, <<0, 1>>, TRUE)
    /\ results[2].other = Two(<<2, 1>>, <<0, 1>>)
    /\ results[2].answer
    /\ CircleOf(circle) = CircleOf(results[2].other)

=============================================================================
